---- MODULE Spec2Model ----
(***************************************************************************)
(* Darubuddy expense calculator (src/script.js): the participant and      *)
(* expense form, calculateAdvanced (aggregation, net balances, greedy     *)
(* two-cursor settlement) and saveCalculation.                            *)
(*                                                                         *)
(* Money is a JavaScript Number.  The amounts of the model are a few      *)
(* cents, so every value the handler computes lies in [0, 2) and is a     *)
(* multiple of 2^-62; a Number is modelled by its exact magnitude         *)
(* <<hi, mid, lo>> = (hi * Base^2 + mid * Base + lo) * 2^-62, and every   *)
(* arithmetic operation rounds its exact result to 53 significant bits,   *)
(* ties to even, as IEEE-754 binary64 does.                               *)
(***************************************************************************)
EXTENDS Integers, Sequences, FiniteSets, TLC

\* ------------------------------------------------------------------------
\* binary64 arithmetic
\* ------------------------------------------------------------------------
Base == 2^21

FZero == <<0, 0, 0>>

\* carry propagation: the limbs of hi * Base^2 + mid * Base + lo
Norm(hi, mid, lo) ==
  LET c1 == lo \div Base
      m  == mid + c1
      c2 == m \div Base
  IN  <<hi + c2, m % Base, lo % Base>>

\* position of the leading bit of a limb h >= 1
Log2(h) == CHOOSE k \in 0..30 : 2^k <= h /\ h < 2^(k+1)

\* round an exact magnitude to 53 significant bits, ties to even.  The exact
\* value is x + t * 2^-62 with 0 <= t < 1, and tail tells where t lies:
\* 0 (t = 0), 1 (t < 1/2), 2 (t = 1/2), 3 (t > 1/2)
Round53(x, tail) ==
  IF x[1] < 2^10 THEN x
  ELSE LET d    == Log2(x[1]) - 10
           q    == 2^d
           r    == x[3] % q
           low  == x[3] - r
           half == q \div 2
           odd  == (low \div q) % 2 = 1
           up   == IF d = 0
                   THEN tail = 3 \/ (tail = 2 /\ odd)
                   ELSE \/ r > half
                        \/ r = half /\ (tail # 0 \/ odd)
       IN  Norm(x[1], x[2], IF up THEN low + q ELSE low)

FLess(a, b) ==
  \/ a[1] < b[1]
  \/ a[1] = b[1] /\ a[2] < b[2]
  \/ a[1] = b[1] /\ a[2] = b[2] /\ a[3] < b[3]

\* a + b
FAdd(a, b) == Round53(Norm(a[1] + b[1], a[2] + b[2], a[3] + b[3]), 0)

\* a - b for a >= b
FSub(a, b) == Round53(Norm(a[1] - b[1], a[2] - b[2], a[3] - b[3]), 0)

\* a / n for an integer n in 1..100
FDivInt(a, n) ==
  LET t2   == (a[1] % n) * Base + a[2]
      t3   == (t2 % n) * Base + a[3]
      rem  == t3 % n
      tail == IF rem = 0 THEN 0
              ELSE IF 2 * rem < n THEN 1
              ELSE IF 2 * rem = n THEN 2 ELSE 3
  IN  Round53(<<a[1] \div n, t2 \div n, t3 \div n>>, tail)

\* Math.min
FMin(a, b) == IF FLess(b, a) THEN b ELSE a

\* parseFloat of the decimal string of c cents ("0.09" for c = 9): the
\* Number nearest to c / 100
ParseCents(c) == FDivInt(<<c * 2^20, 0, 0>>, 100)

\* Number.prototype.toFixed(2) of a magnitude, as a count of cents: the
\* integer n with n / 100 nearest to x, the larger n when two are as near
ToFixed2(x) ==
  LET l  == x[3] * 100
      m  == x[2] * 100 + l \div Base
      h  == x[1] * 100 + m \div Base
  IN  h \div 2^20 + (IF h % 2^20 >= 2^19 THEN 1 ELSE 0)


\* ------------------------------------------------------------------------
\* bounds of the model
\* ------------------------------------------------------------------------
\* name fields on the page (Add person is disabled beyond)
MaxNames == 2
\* expense rows on the page (Add expense is disabled beyond)
MaxExpenses == 1
\* records in the stored history (Save is disabled once it is full)
MaxSaved == 2
\* what a user types into an amount field, in cents: <<>> is a blank field,
\* <<0>> is "0", <<9>> is "0.09"
AmountInputs == {<<>>, <<0>>, <<9>>}
\* the forms calculateAdvanced is applied to on its own: at most MaxRows
\* expense rows and MaxBoxes shared-by checkboxes in all
MaxRows == 3
MaxBoxes == 8
\* the amounts of those rows, in cents
CalcAmounts == {5, 9}

\* ------------------------------------------------------------------------
\* state
\* ------------------------------------------------------------------------
\* A name is a natural number: k is the string "Friend k".  0 is the empty
\* string (the value of a payer select without options).
VARIABLES
  fields,           \* values of the .name-field inputs, in document order
  nameCount,        \* let nameCount
  items,            \* the .expense-item rows: amount, payer, checkboxes
  results,          \* what resultsContainer shows
  saveBtn,          \* TRUE when saveBtn.style.display is 'inline-block'
  lastCalculation,  \* <<>> for null, <<record>> otherwise
  stored,           \* localStorage 'darubuddy_calculations'
  pc,               \* "idle", or "loop" inside calculateAdvanced
  participants, expenses, totalSpent, nets,
  debtors, creditors, i, j, settlement   \* locals of calculateAdvanced

uiVars   == <<fields, nameCount, items>>
outVars  == <<results, saveBtn, lastCalculation, stored>>
calcVars == <<participants, expenses, totalSpent, nets,
              debtors, creditors, i, j, settlement>>
vars     == <<fields, nameCount, items, results, saveBtn, lastCalculation,
              stored, pc, participants, expenses, totalSpent, nets,
              debtors, creditors, i, j, settlement>>

Range(s) == {s[k] : k \in 1..Len(s)}

RemoveAt(s, k) == [n \in 1..(Len(s) - 1) |-> IF n < k THEN s[n] ELSE s[n + 1]]

\* ------------------------------------------------------------------------
\* the form
\* ------------------------------------------------------------------------
\* every name field holds a non-empty name here, so the filter keeps all
getParticipants == SelectSeq(fields, LAMBDA name : name # 0)

\* prevChecked[name]: the state of the last checkbox of that name
PrevChecked(boxes, name) ==
  LET at == {k \in 1..Len(boxes) : boxes[k].value = name}
  IN  IF at = {} THEN TRUE
      ELSE boxes[CHOOSE k \in at : \A m \in at : m <= k].checked

\* one expense row after updateExpenseParticipants
UpdateItem(item, ps) ==
  [amount |-> item.amount,
   payer  |-> IF item.payer \in Range(ps) THEN item.payer
              ELSE IF ps = <<>> THEN 0 ELSE ps[1],
   boxes  |-> [k \in 1..Len(ps) |->
                 [value |-> ps[k], checked |-> PrevChecked(item.boxes, ps[k])]]]

\* the expense rows after updateExpenseParticipants, for name fields fs
updateExpenseParticipants(fs, its) ==
  LET ps == SelectSeq(fs, LAMBDA name : name # 0)
  IN  [k \in 1..Len(its) |-> UpdateItem(its[k], ps)]

\* a fresh expense row, before it is populated
BlankItem == [amount |-> <<>>, payer |-> 0, boxes |-> <<>>]

\* click on Add person: addNameField() without a name
addNameField ==
  /\ pc = "idle"
  /\ Len(fields) < MaxNames
  /\ nameCount' = nameCount + 1
  /\ fields' = Append(fields, nameCount + 1)
  /\ items' = updateExpenseParticipants(fields', items)
  /\ UNCHANGED <<outVars, pc, calcVars>>

\* click on the remove button of name field k
removePerson(k) ==
  /\ pc = "idle"
  /\ k \in 1..Len(fields)
  /\ fields' = RemoveAt(fields, k)
  /\ nameCount' = nameCount - 1
  /\ items' = updateExpenseParticipants(fields', items)
  /\ UNCHANGED <<outVars, pc, calcVars>>

\* click on Add expense
addExpense ==
  /\ pc = "idle"
  /\ Len(items) < MaxExpenses
  /\ items' = updateExpenseParticipants(fields, Append(items, BlankItem))
  /\ UNCHANGED <<fields, nameCount, outVars, pc, calcVars>>

\* click on the remove button of expense row k
removeExpense(k) ==
  /\ pc = "idle"
  /\ k \in 1..Len(items)
  /\ items' = RemoveAt(items, k)
  /\ UNCHANGED <<fields, nameCount, outVars, pc, calcVars>>

\* the user types an amount into expense row k
typeAmount(k, a) ==
  /\ pc = "idle"
  /\ k \in 1..Len(items)
  /\ items[k].amount # a
  /\ items' = [items EXCEPT ![k].amount = a]
  /\ UNCHANGED <<fields, nameCount, outVars, pc, calcVars>>

\* the user picks another option of the payer select of expense row k
selectPayer(k, name) ==
  /\ pc = "idle"
  /\ k \in 1..Len(items)
  /\ name \in {items[k].boxes[b].value : b \in 1..Len(items[k].boxes)}
  /\ items[k].payer # name
  /\ items' = [items EXCEPT ![k].payer = name]
  /\ UNCHANGED <<fields, nameCount, outVars, pc, calcVars>>

\* the user clicks checkbox b of expense row k
toggleShared(k, b) ==
  /\ pc = "idle"
  /\ k \in 1..Len(items)
  /\ b \in 1..Len(items[k].boxes)
  /\ items' = [items EXCEPT ![k].boxes[b].checked = ~ @]
  /\ UNCHANGED <<fields, nameCount, outVars, pc, calcVars>>


\* ------------------------------------------------------------------------
\* calculateAdvanced
\* ------------------------------------------------------------------------
\* the names of the checked checkboxes of a row, in document order
SharedBy(item) ==
  LET chk == SelectSeq(item.boxes, LAMBDA b : b.checked)
  IN  [k \in 1..Len(chk) |-> chk[k].value]

\* !isNaN(amountVal) && amountVal > 0 && payer && sharedBy.length > 0
ValidItem(item) ==
  /\ item.amount # <<>>
  /\ item.amount[1] > 0
  /\ item.payer # 0
  /\ SharedBy(item) # <<>>

\* the expense objects built from the rows (description left out)
BuildExpenses(its) ==
  LET ok == SelectSeq(its, ValidItem)
  IN  [k \in 1..Len(ok) |->
         [amount |-> ok[k].amount[1], payer |-> ok[k].payer,
          sharedBy |-> SharedBy(ok[k])]]

\* totalSpent after the first k expenses
RECURSIVE Spent(_, _)
Spent(exps, k) ==
  IF k = 0 THEN FZero
  ELSE FAdd(Spent(exps, k - 1), ParseCents(exps[k].amount))

\* totals[name].paid after the first k expenses
RECURSIVE Paid(_, _, _)
Paid(name, exps, k) ==
  IF k = 0 THEN FZero
  ELSE LET before == Paid(name, exps, k - 1)
       IN  IF exps[k].payer = name
           THEN FAdd(before, ParseCents(exps[k].amount))
           ELSE before

\* acc after share was added once for each of the first m entries of
\* sharedBy that name `name`
RECURSIVE AddShares(_, _, _, _, _)
AddShares(acc, share, sharedBy, name, m) ==
  IF m = 0 THEN acc
  ELSE LET before == AddShares(acc, share, sharedBy, name, m - 1)
       IN  IF sharedBy[m] = name THEN FAdd(before, share) ELSE before

\* exp.amount / exp.sharedBy.length
Share(exp) == FDivInt(ParseCents(exp.amount), Len(exp.sharedBy))

\* totals[name].owed after the first k expenses
RECURSIVE Owed(_, _, _)
Owed(name, exps, k) ==
  IF k = 0 THEN FZero
  ELSE AddShares(Owed(name, exps, k - 1), Share(exps[k]),
                 exps[k].sharedBy, name, Len(exps[k].sharedBy))

\* parseFloat((paid - owed).toFixed(2)), in cents
NetOf(paid, owed) ==
  IF FLess(paid, owed) THEN 0 - ToFixed2(FSub(owed, paid))
  ELSE ToFixed2(FSub(paid, owed))

\* parseFloat("-0.00") is -0: the difference is negative and rounds to zero
NegZero(paid, owed) == FLess(paid, owed) /\ ToFixed2(FSub(owed, paid)) = 0

\* const nets (negZero tells the number -0 from 0)
NetsOf(ps, exps) ==
  [k \in 1..Len(ps) |->
     LET paid == Paid(ps[k], exps, Len(exps))
         owed == Owed(ps[k], exps, Len(exps))
     IN  [name |-> ps[k], net |-> NetOf(paid, owed),
          negZero |-> NegZero(paid, owed)]]

\* the debtor filter with the sign of the threshold lost: x.net < 0.01
IsDebtorWrongSign(x) == x.net <= 0

\* x.net < -0.01
IsDebtor(x) == x.net < 0 /\ FLess(ParseCents(1), ParseCents(0 - x.net))

\* the creditor filter without its threshold: x.net > 0
IsCreditorNoThreshold(x) == x.net > 0

\* x.net > 0.01
IsCreditor(x) == x.net > 0 /\ FLess(ParseCents(1), ParseCents(x.net))

\* const debtors
DebtorsOf(ns) ==
  LET d == SelectSeq(ns, IsDebtor)
  IN  [k \in 1..Len(d) |-> [name |-> d[k].name, amount |-> ParseCents(0 - d[k].net)]]

\* const creditors
CreditorsOf(ns) ==
  LET c == SelectSeq(ns, IsCreditor)
  IN  [k \in 1..Len(c) |-> [name |-> c[k].name, amount |-> ParseCents(c[k].net)]]

\* the cursor test against zero: amount < 0
ExhaustedBelowZero(amount) == FLess(amount, FZero)

\* the cursor test: amount < 0.01
Exhausted(amount) == FLess(amount, ParseCents(1))

\* const settled
Settled(debtor, creditor) == FMin(debtor.amount, creditor.amount)

\* a transfer naming the debtor on both ends
TransferToDebtor(debtor, creditor, settled) ==
  [from |-> debtor.name, to |-> debtor.name, amount |-> settled]

\* the object pushed to settlement
Transfer(debtor, creditor, settled) ==
  [from |-> debtor.name, to |-> creditor.name, amount |-> settled]

\* if (amount < 0.01) cursor++
NextCursor(cursor, amount) == IF Exhausted(amount) THEN cursor + 1 ELSE cursor

\* an early return that leaves the Save button as it is
ShowErrorKeepsSave(message) ==
  /\ results' = message
  /\ UNCHANGED <<saveBtn, lastCalculation, pc, calcVars>>

\* the early returns of calculateAdvanced: a message, no Save button
ShowError(message) ==
  /\ results' = message
  /\ saveBtn' = FALSE
  /\ UNCHANGED <<lastCalculation, pc, calcVars>>

NoParticipants == "Please add at least one participant."

NoValidExpenses == "Please add at least one expense with an amount."

\* the locals of calculateAdvanced outside a call
NoLocals ==
  /\ participants = <<>> /\ expenses = <<>> /\ totalSpent = FZero
  /\ nets = <<>> /\ debtors = <<>> /\ creditors = <<>>
  /\ i = 0 /\ j = 0 /\ settlement = <<>>

\* click on Calculate: calculateAdvanced up to the settlement loop
calculate ==
  /\ pc = "idle"
  /\ LET ps   == getParticipants
         exps == BuildExpenses(items)
     IN  IF ps = <<>>
         THEN ShowError(NoParticipants)
         ELSE IF exps = <<>>
         THEN ShowError(NoValidExpenses)
         ELSE /\ participants' = ps
              /\ expenses' = exps
              /\ totalSpent' = Spent(exps, Len(exps))
              /\ nets' = NetsOf(ps, exps)
              /\ debtors' = DebtorsOf(nets')
              /\ creditors' = CreditorsOf(nets')
              /\ i' = 0
              /\ j' = 0
              /\ settlement' = <<>>
              /\ pc' = "loop"
              /\ UNCHANGED <<results, saveBtn, lastCalculation>>
  /\ UNCHANGED <<uiVars, stored>>

\* while (i < debtors.length && j < creditors.length)
LoopCondition == i < Len(debtors) /\ j < Len(creditors)

\* one iteration of the settlement loop
loopStep ==
  /\ pc = "loop"
  /\ LoopCondition
  /\ LET debtor   == debtors[i + 1]
         creditor == creditors[j + 1]
         settled  == Settled(debtor, creditor)
         dLeft    == FSub(debtor.amount, settled)
         cLeft    == FSub(creditor.amount, settled)
     IN  /\ settlement' = Append(settlement, Transfer(debtor, creditor, settled))
         /\ debtors' = [debtors EXCEPT ![i + 1].amount = dLeft]
         /\ creditors' = [creditors EXCEPT ![j + 1].amount = cLeft]
         /\ i' = NextCursor(i, dLeft)
         /\ j' = NextCursor(j, cLeft)
  /\ UNCHANGED <<uiVars, outVars, pc, participants, expenses, totalSpent, nets>>

\* calculateAdvanced after the loop: render, keep the calculation, offer Save
finish ==
  /\ pc = "loop"
  /\ ~ LoopCondition
  /\ results' = "Summary"
  /\ lastCalculation' =
       <<[type |-> "advanced", participants |-> participants,
          expenses |-> expenses, totals |-> nets, settlement |-> settlement,
          totalSpent |-> ToFixed2(totalSpent)]>>
  /\ saveBtn' = TRUE
  /\ pc' = "idle"
  /\ participants' = <<>> /\ expenses' = <<>> /\ totalSpent' = FZero
  /\ nets' = <<>> /\ debtors' = <<>> /\ creditors' = <<>>
  /\ i' = 0 /\ j' = 0 /\ settlement' = <<>>
  /\ UNCHANGED <<uiVars, stored>>

\* ------------------------------------------------------------------------
\* saveCalculation
\* ------------------------------------------------------------------------
\* initializeNames(2) followed by addExpense() on emptied containers
FreshFields == <<1, 2>>

FreshItems == updateExpenseParticipants(FreshFields, <<BlankItem>>)

\* JSON.stringify of one calculation, read as the value JSON.parse gives
\* back.  Strings and arrays come back as they were; a finite number is
\* written with the shortest digits that identify it, so it comes back the
\* same number, except that -0 is written "0" and comes back as 0.
JSONRecord(calc) ==
  [calc EXCEPT !.totals =
     [k \in 1..Len(calc.totals) |-> [calc.totals[k] EXCEPT !.negZero = FALSE]]]

\* JSON.stringify(calculations): the text kept under 'darubuddy_calculations'
JSONStringify(calculations) ==
  [k \in 1..Len(calculations) |-> JSONRecord(calculations[k])]

\* JSON.parse(localStorage.getItem('darubuddy_calculations') || '[]')
JSONParse(text) == text

\* a push that puts the new record in front of the history
PushedFirst(calculations, calc) == <<calc>> \o calculations

\* calculations.push(lastCalculation)
Pushed(calculations, calc) == Append(calculations, calc)

\* click on Save (the button is clickable only while it is displayed)
saveCalculation ==
  /\ pc = "idle"
  /\ saveBtn
  /\ IF lastCalculation = <<>>
     THEN UNCHANGED <<uiVars, outVars>>
     ELSE /\ Len(stored) < MaxSaved
          /\ stored' = JSONStringify(Pushed(JSONParse(stored), lastCalculation[1]))
          /\ lastCalculation' = <<>>
          /\ saveBtn' = FALSE
          /\ results' = ""
          /\ nameCount' = 2
          /\ fields' = FreshFields
          /\ items' = FreshItems
  /\ UNCHANGED <<pc, calcVars>>

\* ------------------------------------------------------------------------
\* the page
\* ------------------------------------------------------------------------
\* after DOMContentLoaded: initializeNames(2); addExpense().  Whether the
\* markup shows the Save button before the first calculation is not decided
\* by the script.
Init ==
  /\ fields = FreshFields
  /\ nameCount = 2
  /\ items = FreshItems
  /\ results = ""
  /\ saveBtn \in BOOLEAN
  /\ lastCalculation = <<>>
  /\ stored = <<>>
  /\ pc = "idle"
  /\ NoLocals

Next ==
  \/ addNameField
  \/ \E k \in 1..MaxNames : removePerson(k)
  \/ addExpense
  \/ \E k \in 1..MaxExpenses : removeExpense(k)
  \/ \E k \in 1..MaxExpenses, a \in AmountInputs : typeAmount(k, a)
  \/ \E k \in 1..MaxExpenses, name \in 1..MaxNames : selectPayer(k, name)
  \/ \E k \in 1..MaxExpenses, b \in 1..MaxNames : toggleShared(k, b)
  \/ calculate
  \/ loopStep
  \/ finish
  \/ saveCalculation

Spec == Init /\ [][Next]_vars


\* ------------------------------------------------------------------------
\* calculateAdvanced on its own
\* ------------------------------------------------------------------------
\* the default names of n fields, and the names after a click on the remove
\* button of "Friend 1" followed by a click on Add person
DefaultNames(n) == [k \in 1..n |-> k]

ReaddedNames(n) == [k \in 1..n |-> IF k < n THEN k + 1 ELSE n]

NameLists ==
  {DefaultNames(n) : n \in 0..MaxBoxes} \cup {ReaddedNames(n) : n \in 2..MaxBoxes}

\* the rows a user can set up over name fields fs
RowChoices(fs) ==
  {[amount |-> <<a>>, payer |-> p,
    boxes |-> [k \in 1..Len(fs) |-> [value |-> fs[k], checked |-> c[k]]]] :
     a \in CalcAmounts,
     p \in (IF fs = <<>> THEN {0} ELSE Range(fs)),
     c \in [1..Len(fs) -> BOOLEAN]}

InitCalc ==
  /\ fields \in NameLists
  /\ nameCount = Len(fields)
  /\ \E e \in 0..MaxRows :
       /\ e * Len(fields) <= MaxBoxes
       /\ items \in [1..e -> RowChoices(fields)]
  /\ results = ""
  /\ saveBtn = FALSE
  /\ lastCalculation = <<>>
  /\ stored = <<>>
  /\ pc = "idle"
  /\ NoLocals

NextCalc ==
  \/ calculate
  \/ loopStep
  \/ finish

SpecCalc == InitCalc /\ [][NextCalc]_vars


\* ------------------------------------------------------------------------
\* properties
\* ------------------------------------------------------------------------
Abs(n) == IF n < 0 THEN 0 - n ELSE n

Distinct(s) == \A k, m \in 1..Len(s) : k # m => s[k] # s[m]

\* the kept calculation, when there is one
HasResult == lastCalculation # <<>>

Result == lastCalculation[1]

\* the rounded net of a participant, in cents
NetFor(totals, name) ==
  (CHOOSE x \in Range(totals) : x.name = name).net

\* cents moved by the first k transfers of st: what name paid as `from`
\* less what name received as `to`, each amount as toFixed(2) shows it
RECURSIVE Moved(_, _, _)
Moved(st, name, k) ==
  IF k = 0 THEN 0
  ELSE Moved(st, name, k - 1)
       + (IF st[k].from = name THEN ToFixed2(st[k].amount) ELSE 0)
       - (IF st[k].to = name THEN ToFixed2(st[k].amount) ELSE 0)

RECURSIVE SumNets(_, _)
SumNets(totals, k) ==
  IF k = 0 THEN 0 ELSE SumNets(totals, k - 1) + totals[k].net

\* C1: applying every transfer of the settlement, in order, to the rounded
\* net balances (the debtor `from` pays `amount` to the creditor `to`)
\* leaves every participant's net within 0.01 of zero (stated for distinct
\* names, where a net belongs to one participant).
C1_SettlementClearsBalances ==
  (HasResult /\ Distinct(Result.participants)) =>
    \A name \in Range(Result.participants) :
      Abs(NetFor(Result.totals, name)
          + Moved(Result.settlement, name, Len(Result.settlement))) <= 1

\* C2: conservation: for distinct participants the sum of the net values of
\* the totals is within 0.01 of zero.
C2_Conservation ==
  (HasResult /\ Distinct(Result.participants)) =>
    Abs(SumNets(Result.totals, Len(Result.totals))) <= 1

\* C3: no transfer of a settlement, kept or under construction, has its
\* `from` equal to its `to`, also when names are repeated.
C3_NoSelfTransfer ==
  /\ \A t \in Range(settlement) : t.from # t.to
  /\ HasResult => \A t \in Range(Result.settlement) : t.from # t.to

\* C3 witness: a kept settlement with a transfer, over repeated names
C3_Witness ==
  /\ HasResult
  /\ ~ Distinct(Result.participants)
  /\ Result.settlement # <<>>

\* C4: whenever the loop is about to emit a transfer the debtor and the
\* creditor under the cursors have a remaining amount above zero, and every
\* transfer pushed to the settlement has a strictly positive amount.
C4_PositiveAmounts ==
  /\ (pc = "loop" /\ LoopCondition) =>
        /\ FLess(FZero, debtors[i + 1].amount)
        /\ FLess(FZero, creditors[j + 1].amount)
  /\ \A t \in Range(settlement) : FLess(FZero, t.amount)
  /\ HasResult => \A t \in Range(Result.settlement) : FLess(FZero, t.amount)

\* C4 witness: a second transfer was emitted from a partly used entry
C4_Witness ==
  /\ pc = "loop"
  /\ Len(settlement) >= 2
  /\ settlement[1].to = settlement[2].to

\* a click on Calculate that finds no participant
NoParticipantsCase == calculate /\ getParticipants = <<>>

\* a click on Calculate that finds participants but no valid expense
NoValidExpensesCase ==
  calculate /\ getParticipants # <<>> /\ BuildExpenses(items) = <<>>

\* C5: Calculate with no participant shows 'no participants', with no valid
\* expense shows 'no valid expenses'; either way it computes nothing, keeps
\* no new calculation and hides Save, and Save stays hidden until a
\* calculation completes.
C5_ErrorsOfferNoSave ==
  /\ [][NoParticipantsCase => results' = NoParticipants]_vars
  /\ [][NoValidExpensesCase => results' = NoValidExpenses]_vars
  /\ [][(NoParticipantsCase \/ NoValidExpensesCase) =>
          /\ ~ saveBtn'
          /\ pc' = "idle"
          /\ UNCHANGED <<lastCalculation, stored, calcVars>>]_vars
  /\ [][(~ saveBtn /\ saveBtn') => finish]_vars
  /\ []((results = NoParticipants \/ results = NoValidExpenses) => ~ saveBtn)

\* C5 witness: an error message replaced a completed calculation
C5_Witness ==
  /\ results = NoValidExpenses
  /\ HasResult
  /\ ~ saveBtn

\* the list s reordered by the permutation f of its indices
Permuted(s, f) == [k \in 1..Len(s) |-> s[f[k]]]

\* C6: permuting the list of expenses does not change the net computed for
\* any participant (stated for distinct names).
C6_OrderIndependentNets ==
  (HasResult /\ Distinct(Result.participants)) =>
    \A f \in Permutations(1..Len(Result.expenses)) :
      NetsOf(Result.participants, Permuted(Result.expenses, f)) = Result.totals

\* the loop has ended and exactly one partition has a single member
OneSidedExit ==
  /\ pc = "loop"
  /\ ~ LoopCondition
  /\ \/ Len(debtors) = 1 /\ Len(creditors) > 1
     \/ Len(creditors) = 1 /\ Len(debtors) > 1

Larger(a, b) == IF a < b THEN b ELSE a

AllExhausted(entries) == \A e \in Range(entries) : Exhausted(e.amount)

\* C7: when exactly one partition has a single member the reducer emits
\* exactly max(|debtors|, |creditors|) transfers and leaves every debtor's
\* and every creditor's remaining amount below 0.01.
C7_OneSidedExact ==
  OneSidedExit =>
    /\ Len(settlement) = Larger(Len(debtors), Len(creditors))
    /\ AllExhausted(debtors)
    /\ AllExhausted(creditors)

\* C8: with default names only, the names returned by getParticipants are
\* non-empty and pairwise distinct.
C8_NamesDistinct ==
  /\ \A k \in 1..Len(getParticipants) : getParticipants[k] # 0
  /\ Distinct(getParticipants)

NamesOf(entries) == {e.name : e \in Range(entries)}

\* the partitions and the settlement st agree with the nets ns
Partitioned(ns, st) ==
  /\ \A t \in Range(st) :
       /\ \E x \in Range(ns) : x.name = t.from
       /\ \E x \in Range(ns) : x.name = t.to
       /\ \A x \in Range(ns) :
            /\ x.name = t.from => x.net < 0 - 1
            /\ x.name = t.to => x.net > 1
  /\ \A x \in Range(ns) :
       Abs(x.net) <= 1 => \A t \in Range(st) : t.from # x.name /\ t.to # x.name
  /\ ((\A x \in Range(ns) : x.net >= 0 - 1) \/ (\A x \in Range(ns) : x.net <= 1))
       => st = <<>>

\* C9: a participant with |net| <= 0.01 is in neither partition and in no
\* transfer; every `from` has net < -0.01 and every `to` has net > 0.01;
\* without debtors or without creditors the settlement is empty.
C9_SettledStayOut ==
  /\ pc = "loop" =>
       /\ Partitioned(nets, settlement)
       /\ \A x \in Range(nets) :
            Abs(x.net) <= 1 => x.name \notin NamesOf(debtors) \cup NamesOf(creditors)
       /\ NamesOf(debtors) = {x.name : x \in {y \in Range(nets) : y.net < 0 - 1}}
       /\ NamesOf(creditors) = {x.name : x \in {y \in Range(nets) : y.net > 1}}
       /\ (debtors = <<>> \/ creditors = <<>>) => settlement = <<>>
  /\ HasResult => Partitioned(Result.totals, Result.settlement)

\* C9 witness: a settlement with a transfer beside a participant whose net
\* is exactly one cent
C9_Witness ==
  /\ HasResult
  /\ Result.settlement # <<>>
  /\ \E x \in Range(Result.totals) : Abs(x.net) = 1

\* C10: every iteration of the loop advances a cursor and moves none back,
\* the cursors stay within their lists, and the loop emits at most
\* |debtors| + |creditors| - 1 transfers when both partitions are non-empty.
C10_LoopTerminates ==
  /\ [][loopStep => (i' >= i /\ j' >= j /\ i' + j' > i + j)]_vars
  /\ [](pc = "loop" =>
          /\ i <= Len(debtors)
          /\ j <= Len(creditors)
          /\ Len(settlement) <= i + j
          /\ (debtors # <<>> /\ creditors # <<>>) =>
                Len(settlement) <= Len(debtors) + Len(creditors) - 1)

\* C10 witness: the loop ended after |debtors| + |creditors| - 1 iterations
\* with two entries on each side
C10_Witness ==
  /\ pc = "loop"
  /\ ~ LoopCondition
  /\ Len(debtors) >= 2
  /\ Len(creditors) >= 2
  /\ Len(settlement) = Len(debtors) + Len(creditors) - 1

\* a Save with a pending calculation is the only step that clears it
SavedPending == lastCalculation # <<>> /\ lastCalculation' = <<>>

\* C11: the stored history is append-only.  Every step leaves the history
\* as it is or appends one record at its end; the history changes only in a
\* Save with a pending calculation, which appends that calculation, as JSON
\* keeps it, and clears the pending calculation; without a pending
\* calculation nothing is stored; and a pending calculation only comes from a finished
\* calculation, so no result is stored twice.
C11_HistoryAppendOnly ==
  /\ [][\/ stored' = stored
        \/ /\ Len(stored') = Len(stored) + 1
           /\ SubSeq(stored', 1, Len(stored)) = stored]_vars
  /\ [][stored' # stored => SavedPending /\ pc = "idle" /\ saveBtn]_vars
  /\ [][SavedPending =>
         stored' = Append(stored, JSONRecord(lastCalculation[1]))]_vars
  /\ [][lastCalculation = <<>> => stored' = stored]_vars
  /\ [][lastCalculation' # lastCalculation /\ lastCalculation' # <<>> =>
         pc = "loop" /\ pc' = "idle"]_vars

\* C11 witness: a second, different record was appended behind the first and
\* no calculation is pending
C11_Witness ==
  /\ Len(stored) = 2
  /\ stored[1] # stored[2]
  /\ lastCalculation = <<>>

====
